---- MODULE Spec2Model ----
(***************************************************************************)
(* Model of shop_manager: the validated domain model (models.py) and the   *)
(* SQLite persistence layer with JSON import/export (db.py).               *)
(*                                                                         *)
(* Money is held in thousandths of a currency unit (1234 is 1.234), so     *)
(* that round(x, 2) is a real operation: Round2 rounds to a multiple of 10.*)
(* Strings are drawn from small sets; str.strip() and the two regular      *)
(* expressions are tabulated on those sets.                                *)
(***************************************************************************)
EXTENDS Integers, Sequences, FiniteSets, TLC

\* ---------------------------------------------------------------- bounds
\* caps on the AUTOINCREMENT counters (sqlite_sequence) of the four tables
MaxCustomers == 2
MaxProducts == 2
MaxOrders == 2
MaxItems == 2
\* longest item list of an Order handed to add_order
MaxOrderLen == 2

\* ------------------------------------------------------- sequence helpers
RECURSIVE SetToSeqDesc(_)
\* the rows of S (records with an id field), highest id first
SetToSeqDesc(S) ==
  IF S = {} THEN << >>
  ELSE LET r == CHOOSE x \in S : \A y \in S : y.id <= x.id
       IN << r >> \o SetToSeqDesc(S \ {r})

RECURSIVE SetToSeqAsc(_)
\* the rows of S (records with an id field), lowest id first
SetToSeqAsc(S) ==
  IF S = {} THEN << >>
  ELSE LET r == CHOOSE x \in S : \A y \in S : y.id >= x.id
       IN << r >> \o SetToSeqAsc(S \ {r})

RECURSIVE SumSeq(_)
SumSeq(s) == IF s = << >> THEN 0 ELSE Head(s) + SumSeq(Tail(s))

SeqsUpTo(S, n) == UNION { [1..k -> S] : k \in 0..n }

\* ------------------------------------------------------ models.py: values
\* str.strip() on the strings used here
Strip(s) ==
  CASE s = " " -> ""
    [] s = " Ann " -> "Ann"
    [] s = " Pen " -> "Pen"
    [] s = " ann@example.com " -> "ann@example.com"
    [] OTHER -> s

\* EMAIL_RE.match on the strings used here
EMAIL_RE(s) == s \in {"ann@example.com"}

\* PHONE_RE.match on the strings used here
PHONE_RE(s) == s \in {"+371 12345678"}

\* float(value) succeeds: a price input is [num |-> BOOLEAN, v |-> Int], num
\* FALSE standing for a text float() rejects
IsNumber(price) == price.num

\* round(v, 2) for v >= 0 in thousandths: the nearest multiple of 10, an
\* exact half going to the even hundredth
Round2(v) ==
  LET q == v \div 10
      r == v % 10
  IN IF r < 5 THEN 10 * q
     ELSE IF r > 5 THEN 10 * (q + 1)
     ELSE IF q % 2 = 0 THEN 10 * q ELSE 10 * (q + 1)

ValidationError == "ValidationError"
IntegrityError == "IntegrityError"
KeyError == "KeyError"
ValueError == "ValueError"
NoError == "ok"

\* Person.__post_init__ and the name setter: an empty _name is not validated
PersonName(name) ==
  IF name = "" THEN [err |-> NoError, name |-> ""]
  ELSE IF Strip(name) = "" THEN [err |-> ValidationError, name |-> name]
  ELSE [err |-> NoError, name |-> Strip(name)]

\* Customer.email setter, applied by __post_init__ only to a non-empty _email
CustomerEmail(email) ==
  IF email = "" THEN [err |-> NoError, email |-> ""]
  ELSE IF Strip(email) # "" /\ ~EMAIL_RE(Strip(email))
       THEN [err |-> ValidationError, email |-> email]
  ELSE [err |-> NoError, email |-> Strip(email)]

\* Customer.phone setter, applied by __post_init__ only to a non-empty _phone
CustomerPhone(phone) ==
  IF phone = "" THEN [err |-> NoError, phone |-> ""]
  ELSE IF Strip(phone) # "" /\ ~PHONE_RE(Strip(phone))
       THEN [err |-> ValidationError, phone |-> phone]
  ELSE [err |-> NoError, phone |-> Strip(phone)]

\* Customer(_name=, _email=, _phone=)
Customer(name, email, phone) ==
  LET n == PersonName(name)
      e == CustomerEmail(email)
      p == CustomerPhone(phone)
  IN IF n.err # NoError \/ e.err # NoError \/ p.err # NoError
     THEN [err |-> ValidationError]
     ELSE [err |-> NoError, name |-> n.name, email |-> e.email, phone |-> p.phone]

\* Product(_title=, _price=): an empty _title is not validated, the price
\* always is
Product(title, price) ==
  IF title # "" /\ Strip(title) = "" THEN [err |-> ValidationError]
  ELSE IF ~IsNumber(price) THEN [err |-> ValidationError]
  ELSE IF price.v < 0 THEN [err |-> ValidationError]
  ELSE [err |-> NoError,
        title |-> IF title = "" THEN "" ELSE Strip(title),
        price |-> Round2(price.v)]

\* OrderItem(product_id=, product_title=, unit_price=, quantity=): a plain
\* dataclass, nothing is validated
OrderItem(product_id, product_title, unit_price, quantity) ==
  [product_id |-> product_id, product_title |-> product_title,
   unit_price |-> unit_price, quantity |-> quantity]

\* OrderItem.line_total
line_total(it) == Round2(it.unit_price * it.quantity)

\* Order.total over the item list
total(items) == Round2(SumSeq([i \in 1..Len(items) |-> line_total(items[i])]))

\* Order.add_item without its check
add_item_Unchecked(items, it) == [err |-> NoError, items |-> Append(items, it)]

\* Order.add_item: the only place quantity >= 1 is checked
add_item(items, it) ==
  IF it.quantity < 1 THEN [err |-> ValidationError, items |-> items]
  ELSE [err |-> NoError, items |-> Append(items, it)]

\* ------------------------------------------------------ db.py: the store
\* The content of a database as one connection sees it: the four tables of
\* _init_schema and sqlite_sequence (seq), the AUTOINCREMENT counters.
TableNames == {"customers", "products", "orders", "order_items"}

EmptyStore ==
  [customers |-> {}, products |-> {}, orders |-> {}, order_items |-> {},
   seq |-> [t \in TableNames |-> 0]]

Ids(rows) == { r.id : r \in rows }

\* what a plain INTEGER PRIMARY KEY would do: one more than the largest id
\* the table holds now
NextId_MaxRowid(S, t) ==
  IF S[t] = {} THEN 1
  ELSE (CHOOSE m \in Ids(S[t]) : \A i \in Ids(S[t]) : i <= m) + 1

\* id INTEGER PRIMARY KEY AUTOINCREMENT: one more than the largest id the
\* table ever held
NextId(S, t) == S.seq[t] + 1

\* INSERT INTO customers(name, email, phone)
InsertCustomer(S, c) ==
  LET id == NextId(S, "customers")
  IN [err |-> NoError, id |-> id,
      S |-> [S EXCEPT !.customers = @ \cup {[id |-> id, name |-> c.name,
                                              email |-> c.email, phone |-> c.phone]},
                      !.seq["customers"] = id]]

\* INSERT INTO products(title, price)
InsertProduct(S, p) ==
  LET id == NextId(S, "products")
  IN [err |-> NoError, id |-> id,
      S |-> [S EXCEPT !.products = @ \cup {[id |-> id, title |-> p.title, price |-> p.price]},
                      !.seq["products"] = id]]

\* FOREIGN KEY(customer_id) REFERENCES customers(id), enforced because
\* connect() sets PRAGMA foreign_keys = ON
OrdersCustomerFK(S, customer_id) == customer_id \in Ids(S.customers)

\* INSERT INTO orders(customer_id, created_at): a failed statement changes
\* nothing, the counter included
InsertOrder(S, customer_id, created_at) ==
  LET id == NextId(S, "orders")
  IN IF ~OrdersCustomerFK(S, customer_id) THEN [err |-> IntegrityError, id |-> 0, S |-> S]
     ELSE [err |-> NoError, id |-> id,
           S |-> [S EXCEPT !.orders = @ \cup {[id |-> id, customer_id |-> customer_id,
                                               created_at |-> created_at]},
                           !.seq["orders"] = id]]

\* FOREIGN KEY(product_id) REFERENCES products(id)
ItemsProductFK(S, product_id) == product_id \in Ids(S.products)

\* INSERT INTO order_items(order_id, product_id, unit_price, quantity)
InsertItem(S, order_id, it) ==
  LET id == NextId(S, "order_items")
  IN IF ~ItemsProductFK(S, it.product_id) \/ order_id \notin Ids(S.orders)
     THEN [err |-> IntegrityError, id |-> 0, S |-> S]
     ELSE [err |-> NoError, id |-> id,
           S |-> [S EXCEPT !.order_items = @ \cup {[id |-> id, order_id |-> order_id,
                                                    product_id |-> it.product_id,
                                                    unit_price |-> it.unit_price,
                                                    quantity |-> it.quantity]},
                           !.seq["order_items"] = id]]

RECURSIVE InsertItems(_, _, _)
\* the loop of add_order: stops at the first statement that raises and
\* leaves what the earlier statements wrote
InsertItems(S, order_id, items) ==
  IF items = << >> THEN [err |-> NoError, S |-> S]
  ELSE LET r == InsertItem(S, order_id, Head(items))
       IN IF r.err # NoError THEN [err |-> r.err, S |-> S]
          ELSE InsertItems(r.S, order_id, Tail(items))

\* Database.add_customer. Every method result is [err, id, S, commit]:
\* S is what the connection sees afterwards and commit tells whether
\* conn.commit() was reached.
add_customer(S, c) ==
  LET r == InsertCustomer(S, c)
  IN [err |-> NoError, id |-> r.id, S |-> r.S, commit |-> TRUE]

\* Database.add_product
add_product(S, p) ==
  LET r == InsertProduct(S, p)
  IN [err |-> NoError, id |-> r.id, S |-> r.S, commit |-> TRUE]

\* datetime.isoformat(timespec="seconds"): a datetime is [day, sec, micro],
\* the text keeps day and second and drops the microseconds
isoformat(dt) == [day |-> dt.day, sec |-> dt.sec]

\* Database.add_order: an order is [customer_id, created_at, items]. There
\* is no rollback: when a statement raises, the rows written before it stay
\* in the open transaction.
add_order(S, order) ==
  LET h == InsertOrder(S, order.customer_id, isoformat(order.created_at))
  IN IF h.err # NoError THEN [err |-> h.err, id |-> 0, S |-> S, commit |-> FALSE]
     ELSE LET r == InsertItems(h.S, h.id, order.items)
          IN IF r.err # NoError THEN [err |-> r.err, id |-> 0, S |-> r.S, commit |-> FALSE]
             ELSE [err |-> NoError, id |-> h.id, S |-> r.S, commit |-> TRUE]

\* datetime.fromisoformat: a text is [day, sec], or [day] for a date without
\* a time; anything else (here [junk]) raises ValueError
fromisoformat(text) ==
  IF DOMAIN text = {"day", "sec"}
  THEN [err |-> NoError, dt |-> [day |-> text.day, sec |-> text.sec, micro |-> 0]]
  ELSE IF DOMAIN text = {"day"}
  THEN [err |-> NoError, dt |-> [day |-> text.day, sec |-> 0, micro |-> 0]]
  ELSE [err |-> ValueError]

\* Database.list_customers: SELECT * FROM customers ORDER BY id DESC, each
\* row rebuilt as a Customer (to_dict form: id, name, email, phone)
list_customers(S) ==
  LET rows == SetToSeqDesc(S.customers)
      objs == [i \in 1..Len(rows) |-> Customer(rows[i].name, rows[i].email, rows[i].phone)]
  IN IF \E i \in 1..Len(rows) : objs[i].err # NoError
     THEN [err |-> ValidationError, rows |-> << >>]
     ELSE [err |-> NoError,
           rows |-> [i \in 1..Len(rows) |->
                      [id |-> rows[i].id, name |-> objs[i].name,
                       email |-> objs[i].email, phone |-> objs[i].phone]]]

\* Database.list_products: SELECT * FROM products ORDER BY id DESC, each row
\* rebuilt as a Product (to_dict form: id, title, price)
list_products(S) ==
  LET rows == SetToSeqDesc(S.products)
      objs == [i \in 1..Len(rows) |-> Product(rows[i].title, [num |-> TRUE, v |-> rows[i].price])]
  IN IF \E i \in 1..Len(rows) : objs[i].err # NoError
     THEN [err |-> ValidationError, rows |-> << >>]
     ELSE [err |-> NoError,
           rows |-> [i \in 1..Len(rows) |->
                      [id |-> rows[i].id, title |-> objs[i].title, price |-> objs[i].price]]]

\* the item rows of one order, ORDER BY id
ItemRows(S, order_id) == SetToSeqAsc({ it \in S.order_items : it.order_id = order_id })

\* IFNULL(SUM(oi.unit_price * oi.quantity), 0) over the LEFT JOINed items
SqlTotal(S, order_id) ==
  LET its == ItemRows(S, order_id)
  IN SumSeq([i \in 1..Len(its) |-> its[i].unit_price * its[i].quantity])

\* list_orders with ORDER BY o.id, the DESC forgotten
list_orders_Asc(S) ==
  LET joined == { o \in S.orders : \E c \in S.customers : c.id = o.customer_id }
      rows == SetToSeqAsc(joined)
  IN [i \in 1..Len(rows) |->
       [id |-> rows[i].id, customer_id |-> rows[i].customer_id,
        customer_name |-> (CHOOSE c \in S.customers : c.id = rows[i].customer_id).name,
        created_at |-> rows[i].created_at,
        total |-> SqlTotal(S, rows[i].id)]]

\* Database.list_orders: orders JOIN customers LEFT JOIN order_items,
\* GROUP BY o.id ORDER BY o.id DESC
list_orders(S) ==
  LET joined == { o \in S.orders : \E c \in S.customers : c.id = o.customer_id }
      rows == SetToSeqDesc(joined)
  IN [i \in 1..Len(rows) |->
       [id |-> rows[i].id, customer_id |-> rows[i].customer_id,
        customer_name |-> (CHOOSE c \in S.customers : c.id = rows[i].customer_id).name,
        created_at |-> rows[i].created_at,
        total |-> SqlTotal(S, rows[i].id)]]

\* the same query with ORDER BY oi.id DESC
get_order_items_Desc(S, order_id) ==
  LET joined == { it \in S.order_items :
                    it.order_id = order_id /\ \E p \in S.products : p.id = it.product_id }
      rows == SetToSeqDesc(joined)
  IN [i \in 1..Len(rows) |->
       [id |-> rows[i].id, product_id |-> rows[i].product_id,
        product_title |-> (CHOOSE p \in S.products : p.id = rows[i].product_id).title,
        unit_price |-> rows[i].unit_price, quantity |-> rows[i].quantity,
        line_total |-> line_total(rows[i])]]

\* Database.get_order_items: order_items JOIN products WHERE order_id = ?
\* ORDER BY oi.id; the title is the product's current one (to_dict form)
get_order_items(S, order_id) ==
  LET joined == { it \in S.order_items :
                    it.order_id = order_id /\ \E p \in S.products : p.id = it.product_id }
      rows == SetToSeqAsc(joined)
  IN [i \in 1..Len(rows) |->
       [id |-> rows[i].id, product_id |-> rows[i].product_id,
        product_title |-> (CHOOSE p \in S.products : p.id = rows[i].product_id).title,
        unit_price |-> rows[i].unit_price, quantity |-> rows[i].quantity,
        line_total |-> line_total(rows[i])]]

\* a script that leaves the customers and products
clear_all_OrdersOnly(S) == [S EXCEPT !.orders = {}, !.order_items = {}]

\* Database._clear_all: executescript commits what is pending, deletes the
\* rows of the four tables and commits; sqlite_sequence is not touched
clear_all(S) ==
  [S EXCEPT !.customers = {}, !.products = {}, !.orders = {}, !.order_items = {}]

\* Database.export_json: the document written to the path; it raises when
\* rebuilding a stored row raises
export_json(S) ==
  LET os == list_orders(S)
      cs == list_customers(S)
      ps == list_products(S)
  IN IF cs.err # NoError \/ ps.err # NoError THEN [err |-> ValidationError]
     ELSE [err |-> NoError,
           doc |-> [customers |-> cs.rows,
                    products |-> ps.rows,
                    orders |-> [i \in 1..Len(os) |->
                                 [id |-> os[i].id, customer_id |-> os[i].customer_id,
                                  created_at |-> os[i].created_at, total |-> os[i].total,
                                  items |-> get_order_items(S, os[i].id)]]]]

\* dict.get(key, default)
Get(d, key, default) == IF key \in DOMAIN d THEN d[key] ELSE default

\* cust_map[int(c.get("id") or new_id)] = new_id
MapPut(map, e, new_id) ==
  LET key == IF "id" \in DOMAIN e /\ e.id # 0 THEN e.id ELSE new_id
  IN (key :> new_id) @@ map

\* a reference stored as the document has it
MapGet_Identity(map, id) == id

\* cust_map.get(id, id)
MapGet(map, id) == IF id \in DOMAIN map THEN map[id] ELSE id

\* The loops of import_json carry S, what the connection sees, and D, what
\* has been committed: every add_customer, add_product and add_order that
\* returns has committed.
RECURSIVE ImportCustomers(_, _, _, _)
ImportCustomers(S, D, cs, map) ==
  IF cs = << >> THEN [err |-> NoError, S |-> S, D |-> D, map |-> map]
  ELSE LET c == Head(cs)
       IN IF "name" \notin DOMAIN c THEN [err |-> KeyError, S |-> S, D |-> D, map |-> map]
          ELSE LET cust == Customer(c.name, Get(c, "email", ""), Get(c, "phone", ""))
               IN IF cust.err # NoError
                  THEN [err |-> ValidationError, S |-> S, D |-> D, map |-> map]
                  ELSE LET r == add_customer(S, cust)
                       IN ImportCustomers(r.S, r.S, Tail(cs), MapPut(map, c, r.id))

RECURSIVE ImportProducts(_, _, _, _)
ImportProducts(S, D, ps, map) ==
  IF ps = << >> THEN [err |-> NoError, S |-> S, D |-> D, map |-> map]
  ELSE LET p == Head(ps)
       IN IF "title" \notin DOMAIN p \/ "price" \notin DOMAIN p
          THEN [err |-> KeyError, S |-> S, D |-> D, map |-> map]
          ELSE LET prod == Product(p.title, [num |-> TRUE, v |-> p.price])
               IN IF prod.err # NoError
                  THEN [err |-> ValidationError, S |-> S, D |-> D, map |-> map]
                  ELSE LET r == add_product(S, prod)
                       IN ImportProducts(r.S, r.S, Tail(ps), MapPut(map, p, r.id))

RECURSIVE ImportItems(_, _, _)
\* the inner loop: builds the item list of one order through Order.add_item
ImportItems(its, prod_map, acc) ==
  IF its = << >> THEN [err |-> NoError, items |-> acc]
  ELSE LET it == Head(its)
       IN IF {"product_id", "unit_price", "quantity"} \ DOMAIN it # {}
          THEN [err |-> KeyError, items |-> acc]
          ELSE LET r == add_item(acc, OrderItem(MapGet(prod_map, it.product_id),
                                                 Get(it, "product_title", ""),
                                                 it.unit_price, it.quantity))
               IN IF r.err # NoError THEN [err |-> r.err, items |-> acc]
                  ELSE ImportItems(Tail(its), prod_map, r.items)

RECURSIVE ImportOrders(_, _, _, _, _)
ImportOrders(S, D, os, cust_map, prod_map) ==
  IF os = << >> THEN [err |-> NoError, S |-> S, D |-> D]
  ELSE LET o == Head(os)
       IN IF "created_at" \notin DOMAIN o THEN [err |-> KeyError, S |-> S, D |-> D]
          ELSE LET t == fromisoformat(o.created_at)
               IN IF t.err # NoError THEN [err |-> t.err, S |-> S, D |-> D]
                  ELSE IF "customer_id" \notin DOMAIN o THEN [err |-> KeyError, S |-> S, D |-> D]
                  ELSE LET its == ImportItems(Get(o, "items", << >>), prod_map, << >>)
                       IN IF its.err # NoError THEN [err |-> its.err, S |-> S, D |-> D]
                          ELSE LET r == add_order(S, [customer_id |-> MapGet(cust_map, o.customer_id),
                                                      created_at |-> t.dt,
                                                      items |-> its.items])
                               IN IF r.err # NoError THEN [err |-> r.err, S |-> r.S, D |-> D]
                                  ELSE ImportOrders(r.S, r.S, Tail(os), cust_map, prod_map)

\* Database.import_json(path, clear_first) on the document data; the result
\* is [err, S, D, cust_map, prod_map]
import_json(S, D, data, clear_first) ==
  LET S0 == IF clear_first THEN clear_all(S) ELSE S
      D0 == IF clear_first THEN S0 ELSE D
      c == ImportCustomers(S0, D0, Get(data, "customers", << >>), << >>)
      p == ImportProducts(c.S, c.D, Get(data, "products", << >>), << >>)
      o == ImportOrders(p.S, p.D, Get(data, "orders", << >>), c.map, p.map)
  IN IF c.err # NoError
     THEN [err |-> c.err, S |-> c.S, D |-> c.D, cust_map |-> c.map, prod_map |-> << >>]
     ELSE IF p.err # NoError
     THEN [err |-> p.err, S |-> p.S, D |-> p.D, cust_map |-> c.map, prod_map |-> p.map]
     ELSE [err |-> o.err, S |-> o.S, D |-> o.D, cust_map |-> c.map, prod_map |-> p.map]

\* the delete of a customer with the ON DELETE CASCADE clauses left out and
\* the foreign keys not enforced
delete_customer_NoCascade(S, id) ==
  [err |-> NoError, S |-> [S EXCEPT !.customers = { c \in @ : c.id # id }]]

\* DELETE FROM customers WHERE id = ?: orders.customer_id is ON DELETE
\* CASCADE and so is order_items.order_id
delete_customer(S, id) ==
  LET gone == { o \in S.orders : o.customer_id = id }
  IN [err |-> NoError,
      S |-> [S EXCEPT !.customers = { c \in @ : c.id # id },
                      !.orders = @ \ gone,
                      !.order_items = { it \in @ : it.order_id \notin Ids(gone) }]]

\* DELETE FROM orders WHERE id = ?: order_items.order_id is ON DELETE CASCADE
delete_order(S, id) ==
  [err |-> NoError,
   S |-> [S EXCEPT !.orders = { o \in @ : o.id # id },
                   !.order_items = { it \in @ : it.order_id # id }]]

\* the delete of a product with the foreign key on order_items.product_id
\* not enforced
delete_product_Unrestricted(S, id) ==
  [err |-> NoError, S |-> [S EXCEPT !.products = { p \in @ : p.id # id }]]

\* DELETE FROM products WHERE id = ?: order_items.product_id has no ON
\* DELETE action, so a referenced product cannot be deleted
delete_product(S, id) ==
  IF \E it \in S.order_items : it.product_id = id
  THEN [err |-> IntegrityError, S |-> S]
  ELSE [err |-> NoError, S |-> [S EXCEPT !.products = { p \in @ : p.id # id }]]

\* ---------------------------------------------------------------- inputs
\* (name, email, phone) as typed into Customer(...)
CustomerInputs ==
  { <<"Ann", "ann@example.com", "+371 12345678">>,
    <<" Ann ", " ann@example.com ", "+371 12345678">>,
    <<"", "", "">>,
    <<" ", "", "">>,
    <<"Ann", "bad-email", "">>,
    <<"Ann", "", "12">> }

\* (title, price) as typed into Product(...)
ProductInputs ==
  { <<"Pen", [num |-> TRUE, v |-> 1234]>>,
    <<" Pen ", [num |-> TRUE, v |-> 1230]>>,
    <<" ", [num |-> TRUE, v |-> 500]>>,
    <<"Pen", [num |-> TRUE, v |-> 0 - 1000]>>,
    <<"Pen", [num |-> FALSE, v |-> 0]>> }

\* the items put into orders: two of the first product at 1.234, and none
\* (quantity 0) of the second at 0.50
ItemInputs ==
  { OrderItem(1, "Pen", 1234, 2), OrderItem(2, "Pen", 500, 0) }

\* the item lists of the orders
ItemLists == SeqsUpTo(ItemInputs, MaxOrderLen)

DateTimes == { [day |-> 1, sec |-> 30, micro |-> 500] }

\* a store to export a prepared document from: one customer, one product,
\* one order of one line
SampleStore ==
  LET a == add_customer(EmptyStore, Customer("Ann", "ann@example.com", "+371 12345678")).S
      b == add_product(a, Product("Pen", [num |-> TRUE, v |-> 1234])).S
  IN add_order(b, [customer_id |-> 1, created_at |-> [day |-> 1, sec |-> 30, micro |-> 0],
                   items |-> << OrderItem(1, "Pen", 1234, 2) >>]).S

Without(r, key) == [k \in DOMAIN r \ {key} |-> r[k]]

DamageKinds ==
  { "none", "customer without name", "product with negative price",
    "order without created_at", "order with junk created_at",
    "item without unit_price" }

\* the document with its last entry of one kind damaged
Damage(doc, kind) ==
  LET nc == Len(doc.customers)
      np == Len(doc.products)
      no == Len(doc.orders)
  IN CASE kind = "customer without name" /\ nc > 0 ->
            [doc EXCEPT !.customers[nc] = Without(@, "name")]
       [] kind = "product with negative price" /\ np > 0 ->
            [doc EXCEPT !.products[np].price = 0 - 1000]
       [] kind = "order without created_at" /\ no > 0 ->
            [doc EXCEPT !.orders[no] = Without(@, "created_at")]
       [] kind = "order with junk created_at" /\ no > 0 ->
            [doc EXCEPT !.orders[no].created_at = [junk |-> TRUE]]
       [] kind = "item without unit_price" /\ no > 0 /\ Len(doc.orders[no].items) > 0 ->
            [doc EXCEPT !.orders[no].items[1] = Without(@, "unit_price")]
       [] OTHER -> doc

\* ----------------------------------------------------------------- state
VARIABLES
  conn,       \* what the open connection sees: committed and pending rows
  db_file,    \* what is committed to the file at db_path
  conn_open,  \* self._conn is not None
  schema,     \* the tables that exist in the file
  last,       \* the last call that changed or raised something: [op, err, arg, n, ret]
  high,       \* per table, the highest identifier an add_ method has returned
  call        \* a call of a function that is not a Database method: its name,
              \* its arguments and what it returned or raised

vars == << conn, db_file, conn_open, schema, last, high, call >>

\* the Database variables
store == << conn, db_file, conn_open, schema, last, high >>

\* no function has been called
NoCall == [fn |-> "none"]

IdTables == {"customers", "products", "orders"}

NoIds == [t \in IdTables |-> << >>]

\* a call of op: its error, its identifier argument, a count (the length of
\* the item list for add_order, the rows removed for a delete, clear_first
\* for import_json) and the identifiers it returned, per table and in order
Call(op, err, arg, n, ret) == [op |-> op, err |-> err, arg |-> arg, n |-> n, ret |-> ret]

Max(a, b) == IF a >= b THEN a ELSE b

\* high after a call that returned ret
Returned(ret) ==
  high' = [t \in IdTables |->
             IF ret[t] = << >> THEN high[t] ELSE Max(high[t], ret[t][Len(ret[t])])]

\* Database.__init__ on a path where no file exists yet
NewDatabase ==
  /\ conn = EmptyStore
  /\ db_file = EmptyStore
  /\ conn_open = FALSE
  /\ schema = {}
  /\ last = Call("init", NoError, 0, 0, NoIds)
  /\ high = [t \in IdTables |-> 0]

Init ==
  /\ NewDatabase
  /\ call = NoCall

\* the conn property: connect() when there is no connection, which runs
\* _init_schema (CREATE TABLE IF NOT EXISTS)
Connected ==
  /\ conn_open' = TRUE
  /\ schema' = TableNames

\* a call that only reads: it opens the connection when there is none
ReadOnly(op) ==
  /\ Connected
  /\ last' = IF conn_open THEN last ELSE Call(op, NoError, 0, 0, NoIds)
  /\ UNCHANGED << conn, db_file, high, call >>

\* the effect of a method result r on the connection and the file
Apply(r) ==
  /\ conn' = r.S
  /\ db_file' = IF r.commit THEN r.S ELSE db_file
  /\ UNCHANGED call

\* Database.connect
Connect == ReadOnly("connect")

\* Database.close: sqlite3 drops what was not committed
Close ==
  /\ conn_open' = FALSE
  /\ conn' = db_file
  /\ last' = Call("close", NoError, 0, 0, NoIds)
  /\ UNCHANGED << db_file, schema, high, call >>

\* gui.add_customer: Customer(...) then Database.add_customer; when the
\* constructor raises the Database is not called
AddCustomer ==
  \E in \in CustomerInputs :
    LET c == Customer(in[1], in[2], in[3])
    IN /\ conn.seq["customers"] < MaxCustomers
       /\ IF c.err # NoError
          THEN UNCHANGED vars
          ELSE LET r == add_customer(conn, c)
                   ret == [NoIds EXCEPT !["customers"] = << r.id >>]
               IN /\ Connected
                  /\ Apply(r)
                  /\ last' = Call("add_customer", r.err, 0, 0, ret)
                  /\ Returned(ret)

\* gui.add_product: Product(...) then Database.add_product; when the
\* constructor raises the Database is not called
AddProduct ==
  \E in \in ProductInputs :
    LET p == Product(in[1], in[2])
    IN /\ conn.seq["products"] < MaxProducts
       /\ IF p.err # NoError
          THEN UNCHANGED vars
          ELSE LET r == add_product(conn, p)
                   ret == [NoIds EXCEPT !["products"] = << r.id >>]
               IN /\ Connected
                  /\ Apply(r)
                  /\ last' = Call("add_product", r.err, 0, 0, ret)
                  /\ Returned(ret)

\* Database.add_order on an Order built with Order(items=[...]): the
\* dataclass takes the item list as it is, and add_order checks nothing
AddOrder ==
  /\ conn.seq["orders"] < MaxOrders
  /\ \E customer_id \in 1..MaxCustomers, created_at \in DateTimes, items \in ItemLists :
       LET r == add_order(conn, [customer_id |-> customer_id,
                                 created_at |-> created_at, items |-> items])
           ret == IF r.err = NoError THEN [NoIds EXCEPT !["orders"] = << r.id >>]
                  ELSE NoIds
       IN /\ conn.seq["order_items"] + Len(items) <= MaxItems
          /\ Connected
          /\ Apply(r)
          /\ last' = Call("add_order", r.err, customer_id, Len(items), ret)
          /\ Returned(ret)

\* the ids a..b in increasing order
RECURSIVE Range(_, _)
Range(a, b) == IF a > b THEN << >> ELSE << a >> \o Range(a + 1, b)

\* the number of item entries of a document
DocItems(doc) ==
  SumSeq([i \in 1..Len(Get(doc, "orders", << >>)) |->
            Len(Get(doc.orders[i], "items", << >>))])

\* the documents import_json may find at the path: the prepared one or the
\* one export_json writes from the present content, damaged or not
SampleDocument == export_json(SampleStore).doc

\* a document whose entries all fit under the bounds
Fits(S, doc) ==
  /\ S.seq["customers"] + Len(doc.customers) <= MaxCustomers
  /\ S.seq["products"] + Len(doc.products) <= MaxProducts
  /\ S.seq["orders"] + Len(doc.orders) <= MaxOrders
  /\ S.seq["order_items"] + DocItems(doc) <= MaxItems

Documents(S) ==
  LET e == export_json(S)
      whole == {SampleDocument} \cup (IF e.err = NoError THEN {e.doc} ELSE {})
  IN { Damage(d, k) : d \in { w \in whole : Fits(S, w) }, k \in DamageKinds }

\* Database.export_json: reads only
ExportJson == ReadOnly("export_json")

\* Database.import_json. The customer and product ids it was returned are
\* those assigned since the call began; the order ids those of the add_order
\* calls that returned, which are the committed ones.
ImportJson ==
  \E clear_first \in BOOLEAN : \E data \in Documents(conn) :
    LET r == import_json(conn, db_file, data, clear_first)
        ret == [t \in IdTables |->
                  IF t = "orders" THEN Range(conn.seq[t] + 1, r.D.seq[t])
                  ELSE Range(conn.seq[t] + 1, r.S.seq[t])]
    IN /\ Connected
       /\ conn' = r.S
       /\ db_file' = r.D
       /\ last' = Call("import_json", r.err, 0, IF clear_first THEN 1 ELSE 0, ret)
       /\ Returned(ret)
       /\ UNCHANGED call

\* Database._clear_all
ClearAll ==
  /\ Connected
  /\ conn' = clear_all(conn)
  /\ db_file' = clear_all(conn)
  /\ last' = Call("_clear_all", NoError, 0, 0, NoIds)
  /\ UNCHANGED << high, call >>

\* rows of S that are no longer in T, over the four tables
RowsGone(S, T) ==
  Cardinality(S.customers \ T.customers) + Cardinality(S.products \ T.products)
    + Cardinality(S.orders \ T.orders) + Cardinality(S.order_items \ T.order_items)

\* a DELETE statement on the connection, committed when it succeeds
Delete(op, id, r) ==
  /\ Connected
  /\ conn' = r.S
  /\ db_file' = IF r.err = NoError THEN r.S ELSE db_file
  /\ last' = Call(op, r.err, id, RowsGone(conn, r.S), NoIds)
  /\ UNCHANGED << high, call >>

\* the rows to delete are picked among those the connection shows
DeleteCustomer ==
  \E id \in Ids(conn.customers) : Delete("delete_customer", id, delete_customer(conn, id))

DeleteOrder ==
  \E id \in Ids(conn.orders) : Delete("delete_order", id, delete_order(conn, id))

DeleteProduct ==
  \E id \in Ids(conn.products) : Delete("delete_product", id, delete_product(conn, id))

Next ==
  \/ Connect
  \/ Close
  \/ AddCustomer
  \/ AddProduct
  \/ AddOrder
  \/ ExportJson
  \/ ImportJson
  \/ ClearAll
  \/ DeleteCustomer
  \/ DeleteOrder
  \/ DeleteProduct

Spec == Init /\ [][Next]_vars

TypeOK ==
  /\ conn_open \in BOOLEAN
  /\ schema \subseteq TableNames
  /\ (~conn_open => conn = db_file)

\* ---------------------------------------------------------------- claims

\* C1: add_order is atomic. An order row becomes durable only in the
\* add_order call that wrote it and returned its id, together with every item
\* of that call: no row of an add_order that raised is ever committed.
C1_AddOrderAtomic ==
  [][ \A o \in db_file'.orders \ db_file.orders :
        \E i \in 1..Len(last'.ret["orders"]) : last'.ret["orders"][i] = o.id ]_vars

\* the item rows of the rows in new that belong to no order in old
NewItems(old, new) == new.order_items \ old.order_items

\* C2: an add_order whose customer_id or an item's product_id is not stored
\* raises IntegrityError, and a call that raised it has written no row,
\* neither the order header nor any item.
C2_NoRowOnIntegrityError ==
  [][ last'.op = "add_order" =>
        /\ last'.err = NoError =>
             /\ last'.arg \in Ids(conn.customers)
             /\ \A it \in NewItems(conn, conn') : it.product_id \in Ids(conn.products)
        /\ last'.err = IntegrityError =>
             /\ conn'.orders = conn.orders
             /\ conn'.order_items = conn.order_items ]_vars

\* the field invariants of the Domain Model, on the rows of a store
RowsValid(S) ==
  /\ \A c \in S.customers : c.name # ""
  /\ \A p \in S.products : p.title # "" /\ p.price >= 0
  /\ \A it \in S.order_items : it.quantity >= 1

\* C3: every stored customer has a non-empty name, every stored product a
\* non-empty title and a price >= 0, every stored item a quantity >= 1.
C3_StoredRowsValid == RowsValid(conn) /\ RowsValid(db_file)

\* no order without its customer, no item without its order
NoOrphans(S) ==
  /\ \A o \in S.orders : o.customer_id \in Ids(S.customers)
  /\ \A it \in S.order_items : it.order_id \in Ids(S.orders)

\* C4: deleting a customer removes the customer's orders and their items,
\* deleting an order removes its items, neither removes a product nor a row
\* of anyone else, list_orders then shows no order of the deleted customer,
\* and no order or item is ever left without its customer or order.
C4_CascadeDelete ==
  [][ /\ (last'.op = "delete_customer" /\ last'.err = NoError) =>
           LET id == last'.arg
               gone == { o \in conn.orders : o.customer_id = id }
               shown == list_orders(conn')
           IN /\ conn'.customers = { c \in conn.customers : c.id # id }
              /\ conn'.orders = conn.orders \ gone
              /\ conn'.order_items = { it \in conn.order_items : it.order_id \notin Ids(gone) }
              /\ conn'.products = conn.products
              /\ \A i \in 1..Len(shown) : shown[i].customer_id # id
              /\ db_file' = conn'
      /\ (last'.op = "delete_order" /\ last'.err = NoError) =>
           LET id == last'.arg
           IN /\ conn'.orders = { o \in conn.orders : o.id # id }
              /\ conn'.order_items = { it \in conn.order_items : it.order_id # id }
              /\ conn'.products = conn.products
              /\ conn'.customers = conn.customers
              /\ db_file' = conn'
      /\ NoOrphans(conn')
      /\ NoOrphans(db_file') ]_vars

\* a customer was deleted and an order and an item went with it
C4_Witness == last.op = "delete_customer" /\ last.err = NoError /\ last.n >= 3

\* get_order_items shows every item row of every order
AllItemsShown(S) ==
  \A o \in S.orders : Len(get_order_items(S, o.id)) = Len(ItemRows(S, o.id))

C6_IdsIncrease ==
  [][ \A t \in IdTables :
        LET r == last'.ret[t]
        IN /\ \A i \in 1..(Len(r) - 1) : r[i] < r[i + 1]
           /\ r # << >> => r[1] > high[t] ]_vars

\* a customer was added after the rows with lower ids were deleted or cleared
C6_Witness ==
  /\ last.op = "add_customer" /\ last.ret["customers"] = << 2 >>
  /\ Ids(conn.customers) = {2}

\* every order has at least one item
HasItems(S) == \A o \in S.orders : \E it \in S.order_items : it.order_id = o.id

\* map sends the ids of rows one-to-one onto the ids of copies, and same(r, c)
\* holds of every row r and its copy c
Copies(rows, copies, map, same(_, _)) ==
  /\ Cardinality(copies) = Cardinality(rows)
  /\ \A r \in rows :
       /\ r.id \in DOMAIN map
       /\ \E c \in copies : c.id = map[r.id] /\ same(r, c)
  /\ \A r1, r2 \in rows : r1.id # r2.id => map[r1.id] # map[r2.id]

\* T holds the content of S under other identifiers: cm and pm send the
\* customer and product ids of S to those of T, and the orders of T in the
\* order of their ids are the orders of S as list_orders shows them
SameContent(S, T, cm, pm) ==
  LET os == list_orders(S)
      ns == SetToSeqAsc(T.orders)
      shown == list_orders(T)
  IN /\ Copies(S.customers, T.customers, cm,
               LAMBDA r, c : r.name = c.name /\ r.email = c.email /\ r.phone = c.phone)
     /\ Copies(S.products, T.products, pm,
               LAMBDA r, c : r.title = c.title /\ r.price = c.price)
     /\ Len(os) = Cardinality(S.orders)
     /\ Len(ns) = Len(os)
     /\ Len(shown) = Len(os)
     /\ \A i \in 1..Len(os) :
          LET n == CHOOSE x \in { shown[k] : k \in 1..Len(shown) } : x.id = ns[i].id
              a == get_order_items(S, os[i].id)
              b == get_order_items(T, ns[i].id)
          IN /\ n.customer_id = cm[os[i].customer_id]
             /\ n.customer_name = os[i].customer_name
             /\ n.created_at = os[i].created_at
             /\ n.total = os[i].total
             /\ Len(a) = Len(ItemRows(S, os[i].id))
             /\ Len(b) = Len(a)
             /\ \A j \in 1..Len(a) :
                  /\ b[j].product_id = pm[a[j].product_id]
                  /\ b[j].product_title = a[j].product_title
                  /\ b[j].unit_price = a[j].unit_price
                  /\ b[j].quantity = a[j].quantity
                  /\ b[j].line_total = a[j].line_total

\* export_json of S followed by import_json into an empty store reproduces S
RoundTrip(S) ==
  LET e == export_json(S)
  IN /\ e.err = NoError
     /\ LET r == import_json(EmptyStore, EmptyStore, e.doc, FALSE)
        IN /\ r.err = NoError
           /\ SameContent(S, r.S, r.cust_map, r.prod_map)

\* C7: for every store whose orders have at least one item each, export_json
\* followed by import_json into an empty store yields the same customers,
\* products and orders with equal field values, identifiers apart.
C7_RoundTrip == HasItems(conn) => RoundTrip(conn)

\* C8: an import_json that raises has applied nothing: the connection and
\* the file hold what they held before the call, also with clear_first.
C8_ImportAllOrNothing ==
  [][ (last'.op = "import_json" /\ last'.err # NoError) =>
        (conn' = conn /\ db_file' = db_file) ]_vars

\* C9: for every order whose items have quantity >= 1, the total list_orders
\* reports equals Order.total of the same items.
C9_TotalsAgree ==
  LET shown == list_orders(conn)
  IN \A i \in 1..Len(shown) :
       LET its == ItemRows(conn, shown[i].id)
       IN (\A j \in 1..Len(its) : its[j].quantity >= 1) => shown[i].total = total(its)

\* rows lists every row of table once, highest id first
Listing(rows, table) ==
  /\ Len(rows) = Cardinality(table)
  /\ { rows[i].id : i \in 1..Len(rows) } = Ids(table)
  /\ \A i \in 1..(Len(rows) - 1) : rows[i].id > rows[i + 1].id

\* C10: list_customers, list_products and list_orders each return every
\* stored row of their table exactly once, in strictly decreasing id order.
C10_ListsComplete ==
  /\ list_customers(conn).err = NoError
  /\ Listing(list_customers(conn).rows, conn.customers)
  /\ list_products(conn).err = NoError
  /\ Listing(list_products(conn).rows, conn.products)
  /\ Listing(list_orders(conn), conn.orders)

\* two rows in every table, the last of them imported
C10_Witness ==
  /\ last.op = "import_json" /\ last.err = NoError
  /\ Cardinality(conn.customers) = 2
  /\ Cardinality(conn.products) = 2
  /\ Cardinality(conn.orders) = 2
  /\ Cardinality(conn.order_items) = 2

\* ------------------------------------------------------- sorting_utils.py
\* longest list handed to merge_sort
MaxSortLen == 4

\* the elements sorted: k and tag are what the key functions read, and two
\* elements with the same k differ by their tag
SortElems == [k : 1..2, tag : 1..2]

\* the key functions: lambda x: x["k"], lambda x: x["tag"], lambda x: 0
KeyFns == {"k", "tag", "zero"}

key(f, x) == CASE f = "k" -> x.k [] f = "tag" -> x.tag [] OTHER -> 0

\* _merge.leq with a strict comparison
leq_Strict(a, b, reverse) == IF ~reverse THEN a < b ELSE a > b

\* _merge.leq
leq(a, b, reverse) == IF ~reverse THEN a <= b ELSE a >= b

RECURSIVE merge(_, _, _, _)
\* _merge: the while loop, then the two extends
merge(left, right, f, reverse) ==
  IF left = << >> THEN right
  ELSE IF right = << >> THEN left
  ELSE IF leq(key(f, Head(left)), key(f, Head(right)), reverse)
       THEN << Head(left) >> \o merge(Tail(left), right, f, reverse)
       ELSE << Head(right) >> \o merge(left, Tail(right), f, reverse)

RECURSIVE merge_sort(_, _, _)
merge_sort(data, f, reverse) ==
  IF Len(data) <= 1 THEN data
  ELSE LET mid == Len(data) \div 2
           left == merge_sort(SubSeq(data, 1, mid), f, reverse)
           right == merge_sort(SubSeq(data, mid + 1, Len(data)), f, reverse)
       IN merge(left, right, f, reverse)

\* a call that has returned or raised
Done == "err" \in DOMAIN call

\* the calls of merge_sort
SortCalls ==
  { [fn |-> "merge_sort", data |-> d, key |-> f, reverse |-> r] :
      d \in SeqsUpTo(SortElems, MaxSortLen), f \in KeyFns, r \in BOOLEAN }

InitSort ==
  /\ NewDatabase
  /\ call \in SortCalls

\* merge_sort(data, key=key, reverse=reverse) returns
MergeSort ==
  /\ call.fn = "merge_sort"
  /\ ~Done
  /\ call' = [fn |-> call.fn, data |-> call.data, key |-> call.key, reverse |-> call.reverse,
              err |-> NoError, out |-> merge_sort(call.data, call.key, call.reverse)]
  /\ UNCHANGED store

NextSort == MergeSort

SpecSort == InitSort /\ [][NextSort]_vars

\* the elements of s whose key is v, in the order of s
WithKey(s, f, v) == SelectSeq(s, LAMBDA x : key(f, x) = v)

\* C11: merge_sort returns a permutation of its input that is non-decreasing
\* under the key, non-increasing with reverse=True, and stable: for every key
\* value the elements with that key come out in their input order.
C11_MergeSortStable ==
  (call.fn = "merge_sort" /\ Done) =>
    LET out == call.out
        f == call.key
    IN /\ Len(out) = Len(call.data)
       /\ \A i \in 1..(Len(out) - 1) :
            IF call.reverse THEN key(f, out[i]) >= key(f, out[i + 1])
            ELSE key(f, out[i]) <= key(f, out[i + 1])
       /\ \A v \in 0..2 : WithKey(out, f, v) = WithKey(call.data, f, v)

\* a list with equal keys next to different ones was sorted in descending
\* order, and the order changed
C11_Witness ==
  /\ call.fn = "merge_sort" /\ Done
  /\ call.reverse /\ call.key = "k"
  /\ Len(call.data) = MaxSortLen
  /\ call.out # call.data
  /\ \E i, j \in 1..Len(call.data) :
       i < j /\ call.data[i].k = call.data[j].k /\ call.data[i] # call.data[j]

\* ------------------------------------------- models.py: the constructors
\* the arguments of Customer(_name=, _email=, _phone=)
CustomerCalls ==
  { [fn |-> "Customer", name |-> n, email |-> e, phone |-> p] :
      n \in {"", " ", "Ann", " Ann "},
      e \in {"", " ", "ann@example.com", " ann@example.com ", "bad-email"},
      p \in {"", "+371 12345678", "12"} }

\* the arguments of Product(_title=, _price=): prices from -1.00 to 12.50,
\* and a text that is no number
ProductCalls ==
  { [fn |-> "Product", title |-> t, price |-> pr] :
      t \in {"", " ", "Pen", " Pen "},
      pr \in { [num |-> TRUE, v |-> x] : x \in {0 - 1000, 0 - 1, 0, 1230, 1234, 1236, 12500} }
               \cup { [num |-> FALSE, v |-> 0] } }

InitModels ==
  /\ NewDatabase
  /\ call \in CustomerCalls \cup ProductCalls

\* Customer(...) returns the object or raises
NewCustomer ==
  /\ call.fn = "Customer"
  /\ ~Done
  /\ LET c == Customer(call.name, call.email, call.phone)
     IN call' = [fn |-> call.fn, name |-> call.name, email |-> call.email,
                 phone |-> call.phone, err |-> c.err, out |-> c]
  /\ UNCHANGED store

\* Product(...) returns the object or raises
NewProduct ==
  /\ call.fn = "Product"
  /\ ~Done
  /\ LET p == Product(call.title, call.price)
     IN call' = [fn |-> call.fn, title |-> call.title, price |-> call.price,
                 err |-> p.err, out |-> p]
  /\ UNCHANGED store

NextModels == NewCustomer \/ NewProduct

SpecModels == InitModels /\ [][NextModels]_vars

\* s is empty, or matches the pattern, once trimmed
AbsentOrMatches(s, Matches(_)) == Strip(s) = "" \/ Matches(Strip(s))

\* C12: Customer(...) succeeds exactly when the name is non-empty after
\* trimming and email and phone are absent or match their patterns, the
\* fields then being the trimmed inputs; otherwise it raises ValidationError.
C12_CustomerValidated ==
  (call.fn = "Customer" /\ Done) =>
    LET valid == /\ Strip(call.name) # ""
                 /\ AbsentOrMatches(call.email, EMAIL_RE)
                 /\ AbsentOrMatches(call.phone, PHONE_RE)
    IN IF valid
       THEN /\ call.err = NoError
            /\ call.out.name = Strip(call.name)
            /\ call.out.email = Strip(call.email)
            /\ call.out.phone = Strip(call.phone)
       ELSE call.err = ValidationError

\* C13: Product(...) succeeds exactly when the title is non-empty after
\* trimming and the price is a number >= 0, the stored price then being the
\* input rounded to 2 decimals; otherwise it raises ValidationError.
C13_ProductValidated ==
  (call.fn = "Product" /\ Done) =>
    LET valid == /\ Strip(call.title) # ""
                 /\ IsNumber(call.price)
                 /\ call.price.v >= 0
    IN IF valid
       THEN /\ call.err = NoError
            /\ call.out.title = Strip(call.title)
            /\ call.out.price = Round2(call.price.v)
       ELSE call.err = ValidationError

\* ------------------------------------------- models.py: an Order object
\* longest item list of the Order object
MaxLines == 3

\* the quantities given to an OrderItem
Quantities == {0, 1, 2}

\* OrderItem(...) of a product at 1.234 or at 0.50: the constructor takes
\* every quantity
LineItems ==
  { OrderItem(1, "Pen", u, q) : u \in {1234, 500}, q \in Quantities }

\* Order(customer_id=1): the object is its item list (self), with the
\* constructor or method called last, its argument and how it ended
InitOrder ==
  /\ NewDatabase
  /\ call = [fn |-> "Order", self |-> << >>, arg |-> 0, err |-> NoError]

\* Order(customer_id=1, items=[...]): the dataclass takes the list as it is
NewOrder ==
  \E items \in SeqsUpTo(LineItems, 1) :
    /\ call' = [fn |-> "Order", self |-> items, arg |-> 0, err |-> NoError]
    /\ UNCHANGED store

\* order.add_item(OrderItem(...))
AddItem ==
  \E it \in LineItems :
    LET r == add_item(call.self, it)
    IN /\ Len(call.self) < MaxLines
       /\ call' = [fn |-> "add_item", self |-> r.items, arg |-> it, err |-> r.err]
       /\ UNCHANGED store

\* order.items[i].quantity = q: a plain attribute of the dataclass
SetQuantity ==
  \E i \in 1..Len(call.self), q \in Quantities :
    /\ call' = [fn |-> "quantity", self |-> [call.self EXCEPT ![i].quantity = q],
                arg |-> i, err |-> NoError]
    /\ UNCHANGED store

NextOrder == NewOrder \/ AddItem \/ SetQuantity

SpecOrder == InitOrder /\ [][NextOrder]_vars

\* C14: when every item of the order has quantity >= 1, Order.total is the
\* sum of unit_price * quantity over the items, rounded to 2 decimals.
C14_TotalIsRoundedSum ==
  LET items == call.self
  IN (\A i \in 1..Len(items) : items[i].quantity >= 1) =>
       total(items) =
         Round2(SumSeq([i \in 1..Len(items) |-> items[i].unit_price * items[i].quantity]))

\* C15: add_item with quantity < 1 raises ValidationError and leaves the
\* item list as it was; with quantity >= 1 it returns and the list is the
\* old list, every item unchanged, with the new item at the end.
C15_AddItemChecksQuantity ==
  [][ call'.fn = "add_item" =>
        IF call'.arg.quantity < 1
        THEN call'.err = ValidationError /\ call'.self = call.self
        ELSE call'.err = NoError /\ call'.self = Append(call.self, call'.arg) ]_vars

\* add_item has refused a quantity 0 item on an order that holds items
C15_Witness ==
  /\ call.fn = "add_item"
  /\ call.err = ValidationError
  /\ call.arg.quantity = 0
  /\ Len(call.self) >= 2

\* C16: no Order ever holds an item with quantity < 1, whichever way the
\* item was constructed, changed or attached.
C16_QuantityAtLeastOne ==
  \A i \in 1..Len(call.self) : call.self[i].quantity >= 1

\* ------------------------------------------------------------ analysis.py
\* head(5) in top_customers_by_orders
TopN == 5

\* the customer names of the stores analysed, in the order pandas sorts
\* group keys (str comparison)
AllNames == << "", "A", "B", "C", "D", "E", "F" >>

RECURSIVE OrderItems(_, _)
\* build_dataframes: the items loop, get_order_items for every listed order,
\* each item's dict with the order_id added
OrderItems(S, orders) ==
  IF orders = << >> THEN << >>
  ELSE LET its == get_order_items(S, Head(orders).id)
       IN [i \in 1..Len(its) |->
             [order_id |-> Head(orders).id, product_id |-> its[i].product_id,
              quantity |-> its[i].quantity]]
          \o OrderItems(S, Tail(orders))

\* build_dataframes whose queries empty the tables
build_dataframes_Deleting(S) ==
  [err |-> NoError, S |-> clear_all(S), customers |-> << >>, products |-> << >>,
   orders |-> << >>, items |-> << >>]

\* build_dataframes: the four frames, orders_df with its date column, and S,
\* the connection's view once the queries have run
build_dataframes(S) ==
  LET customers == list_customers(S)
      products == list_products(S)
      orders == list_orders(S)
  IN IF customers.err # NoError \/ products.err # NoError
     THEN [err |-> ValidationError, S |-> S]
     ELSE [err |-> NoError, S |-> S,
           customers |-> customers.rows,
           products |-> products.rows,
           orders |-> [i \in 1..Len(orders) |->
                         [id |-> orders[i].id, customer_name |-> orders[i].customer_name,
                          date |-> orders[i].created_at.day]],
           items |-> OrderItems(S, orders)]

\* _empty_plot: the "no data" picture
NoData == [nodata |-> TRUE]

\* groupby(column)["id"].count(): the keys and the number of rows of each
GroupKeys(rows, column) == { rows[i][column] : i \in 1..Len(rows) }

GroupCount(rows, column, k) == Cardinality({ i \in 1..Len(rows) : rows[i][column] = k })

RECURSIVE SortedDescending(_, _)
\* sort_values(ascending=False) of the counts of the groups G: every order
\* of the groups with the counts non-increasing (the place of equal counts
\* depends on the sort algorithm)
SortedDescending(G, rows) ==
  IF G = {} THEN { << >> }
  ELSE LET m == CHOOSE n \in { GroupCount(rows, "customer_name", g) : g \in G } :
                  \A g \in G : GroupCount(rows, "customer_name", g) <= n
       IN UNION { { << [name |-> g, count |-> m] >> \o rest :
                      rest \in SortedDescending(G \ {g}, rows) } :
                  g \in { h \in G : GroupCount(rows, "customer_name", h) = m } }

\* the last n entries instead of the first
HeadN_Last(s, n) == SubSeq(s, IF Len(s) < n THEN 1 ELSE Len(s) - n + 1, Len(s))

\* Series.head(n)
HeadN(s, n) == SubSeq(s, 1, IF Len(s) < n THEN Len(s) ELSE n)

\* top_customers_by_orders: the bars plotted, one possible picture per order
\* the sort may leave equal counts in
top_customers_by_orders(df) ==
  IF df.orders = << >> THEN { NoData }
  ELSE { [nodata |-> FALSE, bars |-> HeadN(r, TopN)] :
           r \in SortedDescending(GroupKeys(df.orders, "customer_name"), df.orders) }

RECURSIVE Ascending(_)
\* sort_index(): the keys from the lowest up
Ascending(D) ==
  IF D = {} THEN << >>
  ELSE LET m == CHOOSE d \in D : \A e \in D : d <= e
       IN << m >> \o Ascending(D \ {m})

\* orders_dynamics_by_date: the points of the line, by date
orders_dynamics_by_date(df) ==
  IF df.orders = << >> THEN NoData
  ELSE LET days == Ascending(GroupKeys(df.orders, "date"))
       IN [nodata |-> FALSE,
           points |-> [i \in 1..Len(days) |->
                         [date |-> days[i], count |-> GroupCount(df.orders, "date", days[i])]]]

\* merged["customer_name"]: the name of the customer of an item's order
CustomerOf(df, item) ==
  LET i == CHOOSE j \in 1..Len(df.orders) : df.orders[j].id = item.order_id
  IN df.orders[i].customer_name

\* cust_products: the set of product ids of the items of one name
cust_products(df, name) ==
  { df.items[i].product_id :
      i \in { j \in 1..Len(df.items) : CustomerOf(df, df.items[j]) = name } }

\* an edge's weight counted in items of the first customer, not in shared
\* products
EdgeWeight_Items(df, a, b) ==
  Cardinality({ i \in 1..Len(df.items) :
                  /\ CustomerOf(df, df.items[i]) = a
                  /\ df.items[i].product_id \in cust_products(df, b) })

\* len(shared) for the pair of names a, b
EdgeWeight(df, a, b) == Cardinality(cust_products(df, a) \cap cust_products(df, b))

\* customer_relationship_graph: the graph drawn, nodes by customer name
customer_relationship_graph(df) ==
  IF df.orders = << >> \/ df.items = << >> THEN NoData
  ELSE LET keys == { CustomerOf(df, df.items[i]) : i \in 1..Len(df.items) }
           cust_list == SelectSeq(AllNames, LAMBDA n : n \in keys)
       IN [nodata |-> FALSE,
           nodes |-> { cust_list[i] : i \in 1..Len(cust_list) },
           edges |-> { [ends |-> { cust_list[p[1]], cust_list[p[2]] },
                        weight |-> EdgeWeight(df, cust_list[p[1]], cust_list[p[2]])] :
                       p \in { q \in (1..Len(cust_list)) \X (1..Len(cust_list)) :
                                 /\ q[1] < q[2]
                                 /\ EdgeWeight(df, cust_list[q[1]], cust_list[q[2]]) > 0 } }]

\* ---- the stores analysed
MaxGraphOrders == 3
MaxPerName == 2

RECURSIVE RunCalls(_, _)
\* a script's calls on a fresh database: S the connection's view, D the file
RunCalls(st, calls) ==
  IF calls = << >> THEN st
  ELSE LET c == Head(calls)
           r == CASE c.op = "add_customer" -> add_customer(st.S, c.arg)
                  [] c.op = "add_product" -> add_product(st.S, c.arg)
                  [] OTHER -> add_order(st.S, c.arg)
       IN RunCalls([S |-> r.S, D |-> IF r.commit THEN r.S ELSE st.D], Tail(calls))

\* an order of one unit of each of the given products
OrderOf(customer_id, product_ids) ==
  [op |-> "add_order",
   arg |-> [customer_id |-> customer_id,
            created_at |-> [day |-> customer_id, sec |-> 30, micro |-> 500],
            items |-> [i \in 1..Len(product_ids) |-> OrderItem(product_ids[i], "Pen", 500, 1)]]]

CustomersNamed(names) ==
  [i \in 1..Len(names) |-> [op |-> "add_customer", arg |-> Customer(names[i], "", "")]]

ProductsStored(n) ==
  [i \in 1..n |-> [op |-> "add_product", arg |-> Product("Pen", [num |-> TRUE, v |-> 500])]]

\* the orders of a graph store: product 9 is not stored, so that order fails
GraphOrders(n) ==
  SeqsUpTo([customer_id : 1..3,
            products : { << >>, << 1, 2 >>, << 2, 3 >>, << 4 >>, << 9 >> }], n)

\* three customers, four products and some orders
GraphStore(names, os) ==
  RunCalls([S |-> EmptyStore, D |-> EmptyStore],
           CustomersNamed(names) \o ProductsStored(4)
           \o [i \in 1..Len(os) |-> OrderOf(os[i].customer_id, os[i].products)])

\* up to MaxGraphOrders orders of customers of three names, and one order
\* less when two of the customers have one name
GraphStores ==
  { GraphStore(<< "A", "B", "C" >>, os) : os \in GraphOrders(MaxGraphOrders) }
  \cup { GraphStore(<< "A", "B", "A" >>, os) : os \in GraphOrders(MaxGraphOrders - 1) }

RECURSIVE OrdersCounted(_, _)
\* counts[c] orders of product 1 for every customer c, from customer n down
OrdersCounted(counts, n) ==
  IF n = 0 THEN << >>
  ELSE OrdersCounted(counts, n - 1)
       \o [i \in 1..counts[n] |-> OrderOf(n, << 1 >>)]

\* TopN + 1 customers of different names with 1 to MaxPerName orders each
TopStores ==
  { RunCalls([S |-> EmptyStore, D |-> EmptyStore],
             CustomersNamed(SubSeq(AllNames, 2, TopN + 2)) \o ProductsStored(1)
             \o OrdersCounted(counts, TopN + 1)) :
      counts \in [1..(TopN + 1) -> 1..MaxPerName] }

AnalysisFns ==
  {"top_customers_by_orders", "orders_dynamics_by_date",
   "customer_relationship_graph", "generate_all_reports"}

InitAnalysis ==
  /\ \/ NewDatabase
     \/ /\ \E st \in GraphStores \cup TopStores :
             /\ conn = st.S
             /\ db_file = st.D
             /\ high = [t \in IdTables |-> st.D.seq[t]]
        /\ conn_open = TRUE
        /\ schema = TableNames
        /\ last = Call("init", NoError, 0, 0, NoIds)
  /\ call = NoCall

\* what a report does to the database: its queries go through db.conn, and
\* S is the connection's view they leave; the rows add_customer and
\* add_product stored pass the constructors again, so the queries do not raise
Analysed(err, S) ==
  /\ call = NoCall
  /\ err = NoError
  /\ Connected
  /\ conn' = S
  /\ UNCHANGED << db_file, last, high >>

TopCustomers ==
  LET df == build_dataframes(conn)
  IN /\ Analysed(df.err, df.S)
     /\ \E out \in top_customers_by_orders(df) :
          call' = [fn |-> "top_customers_by_orders", out |-> out]

OrdersDynamics ==
  LET df == build_dataframes(conn)
  IN /\ Analysed(df.err, df.S)
     /\ call' = [fn |-> "orders_dynamics_by_date",
                 out |-> orders_dynamics_by_date(df)]

RelationshipGraph ==
  LET df == build_dataframes(conn)
  IN /\ Analysed(df.err, df.S)
     /\ call' = [fn |-> "customer_relationship_graph",
                 out |-> customer_relationship_graph(df)]

\* generate_all_reports: the three reports one after the other, each with
\* its own build_dataframes
GenerateAllReports ==
  LET df1 == build_dataframes(conn)
      df2 == build_dataframes(df1.S)
      df3 == build_dataframes(df2.S)
  IN /\ Analysed(IF df1.err # NoError THEN df1.err
                 ELSE IF df2.err # NoError THEN df2.err ELSE df3.err,
                 df3.S)
     /\ \E top \in top_customers_by_orders(df1) :
          call' = [fn |-> "generate_all_reports",
                   out |-> [top_customers |-> top,
                            orders_dynamics |-> orders_dynamics_by_date(df2),
                            customer_graph |-> customer_relationship_graph(df3)]]

NextAnalysis ==
  \/ TopCustomers
  \/ OrdersDynamics
  \/ RelationshipGraph
  \/ GenerateAllReports

SpecAnalysis == InitAnalysis /\ [][NextAnalysis]_vars

\* the names of the customers that own at least one order of the store
OrderOwners(S) ==
  { c.name : c \in { d \in S.customers : \E o \in S.orders : o.customer_id = d.id } }

\* the nodes of a picture: the "no data" picture has none
NodesOf(out) == IF out.nodata THEN {} ELSE out.nodes

\* C17: the nodes of the customer relationship graph are exactly the names
\* of the customers that own at least one order of the store, the customers
\* whose orders have no items included.
C17_NodesAreOrderOwners ==
  call.fn = "customer_relationship_graph" => NodesOf(call.out) = OrderOwners(conn)


\* the distinct products bought under one customer name, from the tables
Purchased(S, name) ==
  { it.product_id :
      it \in { i \in S.order_items :
                 \E o \in S.orders : \E c \in S.customers :
                   /\ i.order_id = o.id
                   /\ o.customer_id = c.id
                   /\ c.name = name } }

\* the edges of a picture: the "no data" picture has none
EdgesOf(out) == IF out.nodata THEN {} ELSE out.edges

\* C18: in the customer relationship graph, customers being the graph's
\* nodes (customer names), every pair of distinct customers has an edge if
\* and only if the sets of distinct products they bought intersect, the
\* weight of the edge is the size of the intersection, there is one edge
\* for a pair at most, and no edge joins a customer to itself.
C18_EdgesAreSharedProducts ==
  call.fn = "customer_relationship_graph" =>
    LET edges == EdgesOf(call.out)
        names == { c.name : c \in conn.customers }
    IN /\ \A e \in edges : Cardinality(e.ends) = 2 /\ e.ends \subseteq NodesOf(call.out)
       /\ \A e, f \in edges : e.ends = f.ends => e = f
       /\ \A a, b \in names :
            a # b =>
              LET shared == Purchased(conn, a) \cap Purchased(conn, b)
              IN /\ (\E e \in edges : e.ends = {a, b}) <=> shared # {}
                 /\ \A e \in edges : e.ends = {a, b} => e.weight = Cardinality(shared)

\* the specification's example, A bought {1,2}, B {2,3}, C {4}: one edge
\* A-B of weight 1 and C isolated
C18_Witness ==
  /\ call.fn = "customer_relationship_graph"
  /\ Purchased(conn, "A") = {1, 2}
  /\ Purchased(conn, "B") = {2, 3}
  /\ Purchased(conn, "C") = {4}
  /\ ~call.out.nodata
  /\ call.out.nodes = {"A", "B", "C"}
  /\ call.out.edges = { [ends |-> {"A", "B"}, weight |-> 1] }

\* the number of orders of the store under one customer name
OrdersOfName(S, name) ==
  Cardinality({ o \in S.orders :
                  \E c \in S.customers : c.id = o.customer_id /\ c.name = name })

\* C19: the top customers are the orders grouped by customer name: at most
\* 5 entries of different names, each with the number of that name's
\* orders, in non-increasing order of that number; no name is left out
\* while fewer than 5 are kept, and every name left out has no more orders
\* than any name kept.
C19_TopCustomers ==
  (call.fn = "top_customers_by_orders" /\ ~call.out.nodata) =>
    LET bars == call.out.bars
        kept == { bars[i].name : i \in 1..Len(bars) }
        left == OrderOwners(conn) \ kept
    IN /\ Len(bars) <= 5
       /\ kept \subseteq OrderOwners(conn)
       /\ \A i, j \in 1..Len(bars) : i # j => bars[i].name # bars[j].name
       /\ \A i \in 1..Len(bars) : bars[i].count = OrdersOfName(conn, bars[i].name)
       /\ \A i, j \in 1..Len(bars) : i < j => bars[i].count >= bars[j].count
       /\ left # {} => Len(bars) = 5
       /\ \A n \in left : \A i \in 1..Len(bars) : OrdersOfName(conn, n) <= bars[i].count

\* six names own orders, five are kept with different counts among them,
\* and the one left out has as many orders as the last one kept
C19_Witness ==
  /\ call.fn = "top_customers_by_orders"
  /\ ~call.out.nodata
  /\ Cardinality(OrderOwners(conn)) = 6
  /\ Len(call.out.bars) = 5
  /\ call.out.bars[1].count = 2
  /\ call.out.bars[5].count = 1
  /\ \E n \in OrderOwners(conn) :
       /\ \A i \in 1..5 : call.out.bars[i].name # n
       /\ OrdersOfName(conn, n) = 1

\* C20: the analytics are read-only: top_customers_by_orders,
\* orders_dynamics_by_date, customer_relationship_graph and
\* generate_all_reports leave the customers, products, orders and
\* order_items tables as they were, in the connection's view and in the
\* database file, whatever the store, the empty one included.
C20_AnalysisReadOnly ==
  [][ call'.fn \in AnalysisFns => (conn' = conn /\ db_file' = db_file) ]_vars

\* a report has run on a store that holds orders and items
C20_Witness ==
  /\ call.fn = "generate_all_reports"
  /\ ~call.out.customer_graph.nodata
  /\ conn.orders # {}
  /\ conn.order_items # {}
  /\ db_file.orders # {}


\* ------------------------------------------ db.py: connect, close, schema
\* a script that drops the tables before it creates them
init_schema_Recreate(tables, D) == [schema |-> TableNames, D |-> EmptyStore]

\* Database._init_schema on a file that holds the given tables with the
\* content D: CREATE TABLE IF NOT EXISTS makes the missing tables, empty and
\* with no identifier assigned, and leaves the others as they are
init_schema(tables, D) ==
  [schema |-> tables \cup TableNames,
   D |-> [customers |-> IF "customers" \in tables THEN D.customers ELSE {},
          products |-> IF "products" \in tables THEN D.products ELSE {},
          orders |-> IF "orders" \in tables THEN D.orders ELSE {},
          order_items |-> IF "order_items" \in tables THEN D.order_items ELSE {},
          seq |-> [t \in TableNames |-> IF t \in tables THEN D.seq[t] ELSE 0]]]

\* Database.connect of an object whose connection is open or not, S its
\* view: nothing on an open one, otherwise sqlite3.connect on the file,
\* _init_schema and its commit
connect(open, tables, S, D) ==
  IF open THEN [schema |-> tables, S |-> S, D |-> D]
  ELSE LET r == init_schema(tables, D)
       IN [schema |-> r.schema, S |-> r.D, D |-> r.D]

\* the databases connected to: the one no file exists for yet, and files
\* written by a script of three add_customer, four add_product and at most
\* one add_order, with the connection still open or closed since
InitConnect ==
  /\ \/ NewDatabase
     \/ /\ \E st \in { GraphStore(<< "A", "B", "C" >>, os) : os \in GraphOrders(1) } :
             /\ db_file = st.D
             /\ high = [t \in IdTables |-> st.D.seq[t]]
             /\ \/ conn_open = TRUE /\ conn = st.S
                \/ conn_open = FALSE /\ conn = st.D
        /\ schema = TableNames
        /\ last = Call("init", NoError, 0, 0, NoIds)
  /\ call = NoCall

\* db.connect() on the Database in use; n tells whether it was open
ConnectAgain ==
  LET r == connect(conn_open, schema, conn, db_file)
  IN /\ conn_open' = TRUE
     /\ schema' = r.schema
     /\ conn' = r.S
     /\ db_file' = r.D
     /\ last' = Call("connect", NoError, 0, IF conn_open THEN 1 ELSE 0, NoIds)
     /\ UNCHANGED << high, call >>

\* Database(path).connect() of a new object on the path of the one in use,
\* whose own connection and its uncommitted rows stay as they are
ConnectNewDatabase ==
  LET r == connect(FALSE, schema, db_file, db_file)
  IN /\ call.fn # "Database"
     /\ schema' = r.schema
     /\ db_file' = r.D
     /\ call' = [fn |-> "Database", conn_open |-> TRUE, conn |-> r.S]
     /\ UNCHANGED << conn, conn_open, last, high >>

NextConnect ==
  \/ ConnectAgain
  \/ ConnectNewDatabase
  \/ Close
  \/ DeleteCustomer

SpecConnect == InitConnect /\ [][NextConnect]_vars

\* C21: the schema bootstrap is idempotent and non-destructive. Every
\* connect (on the open Database, after a close, or of a new Database on
\* the same path) leaves the four tables in place, creating them the first
\* time, and changes neither a stored row nor the identifiers assigned: the
\* file is as before, an open connection keeps its view, and a new
\* connection sees the file.
C21_ConnectKeepsStore ==
  [][ ((last'.op = "connect" /\ last' # last) \/ call' # call) =>
        /\ schema' = TableNames
        /\ db_file' = db_file
        /\ conn' = (IF conn_open THEN conn ELSE db_file)
        /\ (call' # call => call'.conn = db_file) ]_vars

\* a reconnect after a close, on a file that holds rows and whose customer
\* identifiers went beyond the rows left (a customer was deleted), followed
\* by a new Database on the same path
C21_Witness ==
  /\ last.op = "connect"
  /\ last.n = 0
  /\ call.fn = "Database"
  /\ conn.customers # {}
  /\ conn.products # {}
  /\ \A c \in conn.customers : c.id < conn.seq["customers"]
  /\ call.conn = conn

\* -------------------------------------------- db.py: import_json, applied
MaxDocOrders == 2

\* the documents imported: what export_json writes of a store of the
\* customers D, E, F, four products and up to MaxDocOrders orders, whole or
\* with a list left empty or cut short, so that orders and items may refer
\* to identifiers the document does not list
PartialKinds ==
  { "whole", "without customers", "without products",
    "without the first customer and product" }

Partial(doc, kind) ==
  CASE kind = "without customers" -> [doc EXCEPT !.customers = << >>]
    [] kind = "without products" -> [doc EXCEPT !.products = << >>]
    [] kind = "without the first customer and product" ->
         [doc EXCEPT !.customers = SubSeq(@, 1, Len(@) - 1),
                     !.products = SubSeq(@, 1, Len(@) - 1)]
    [] OTHER -> doc

ImportDocuments ==
  { Partial(export_json(GraphStore(<< "D", "E", "F" >>, os).S).doc, kind) :
      os \in GraphOrders(MaxDocOrders), kind \in PartialKinds }

\* the stores imported into: three customers and four products with no
\* order, with one order of two items, or with the row of an order that
\* failed still uncommitted
ImportTargets ==
  { GraphStore(<< "A", "B", "C" >>, os) :
      os \in { << >>, << [customer_id |-> 1, products |-> << 1, 2 >>] >>,
               << [customer_id |-> 1, products |-> << 9 >>] >> } }

\* a database, fresh or written to, and the arguments of the import to come
InitImport ==
  /\ \/ NewDatabase
     \/ /\ \E st \in ImportTargets :
             /\ conn = st.S
             /\ db_file = st.D
             /\ high = [t \in IdTables |-> st.D.seq[t]]
        /\ conn_open = TRUE
        /\ schema = TableNames
        /\ last = Call("init", NoError, 0, 0, NoIds)
  /\ \E data \in ImportDocuments, clear_first \in BOOLEAN :
       call = [fn |-> "read_text", data |-> data, clear_first |-> clear_first]

\* Database.import_json(path, clear_first) on the document at the path
ImportDocument ==
  /\ call.fn = "read_text"
  /\ LET r == import_json(conn, db_file, call.data, call.clear_first)
         ret == [t \in IdTables |->
                   IF t = "orders" THEN Range(conn.seq[t] + 1, r.D.seq[t])
                   ELSE Range(conn.seq[t] + 1, r.S.seq[t])]
     IN /\ Connected
        /\ conn' = r.S
        /\ db_file' = r.D
        /\ last' = Call("import_json", r.err, 0, IF call.clear_first THEN 1 ELSE 0, ret)
        /\ Returned(ret)
        /\ call' = [fn |-> "import_json", data |-> call.data,
                    clear_first |-> call.clear_first, err |-> r.err]

NextImport == ImportDocument

SpecImport == InitImport /\ [][NextImport]_vars

\* the identifiers a document list gives its entries
DocIds(entries) == { entries[i].id : i \in 1..Len(entries) }

\* what a reference to ref must be stored as: the i-th entry of the list is
\* given the i-th identifier after base, and a reference to none of the
\* entries stays as it is
Rewritten(entries, base, ref) ==
  IF ref \in DocIds(entries)
  THEN base + (CHOOSE i \in 1..Len(entries) : entries[i].id = ref)
  ELSE ref

\* C22: import_json rewrites every cross-reference through the maps of the
\* same import. When it returns, the k-th order of the document is stored
\* under the new identifier of the document customer it names, each of its
\* items under the new identifier of the document product it names, and a
\* reference to an identifier the document does not list is stored
\* unchanged; such a reference is not refused by the import itself, which
\* raises only when the store has no row for a reference (IntegrityError).
C22_ReferencesRewritten ==
  [][ call'.fn = "import_json" =>
        LET doc == call'.data
            customer(k) == Rewritten(doc.customers, conn.seq["customers"],
                                     doc.orders[k].customer_id)
            product(k, j) == Rewritten(doc.products, conn.seq["products"],
                                       doc.orders[k].items[j].product_id)
        IN /\ call'.err \in {NoError, IntegrityError}
           /\ call'.err = NoError =>
                \A k \in 1..Len(doc.orders) :
                  \E o \in conn'.orders :
                    /\ o.id = conn.seq["orders"] + k
                    /\ o.customer_id = customer(k)
                    /\ Len(ItemRows(conn', o.id)) = Len(doc.orders[k].items)
                    /\ \A j \in 1..Len(doc.orders[k].items) :
                         ItemRows(conn', o.id)[j].product_id = product(k, j)
           /\ call'.err = IntegrityError =>
                \E k \in 1..Len(doc.orders) :
                  \/ customer(k) \notin Ids(conn'.customers)
                  \/ \E j \in 1..Len(doc.orders[k].items) :
                       product(k, j) \notin Ids(conn'.products) ]_vars

\* an import has returned whose document lists customers but no products:
\* an order is stored under a customer identifier the document does not
\* use (a new one), with an item under the product identifier of the
\* document (passed through)
C22_Witness ==
  /\ call.fn = "import_json"
  /\ call.err = NoError
  /\ call.data.customers # << >>
  /\ call.data.products = << >>
  /\ \E k \in 1..Len(call.data.orders) :
       /\ call.data.orders[k].customer_id \in DocIds(call.data.customers)
       /\ call.data.orders[k].items # << >>
       /\ \E o \in conn.orders :
            /\ o.customer_id \notin DocIds(call.data.customers)
            /\ o.customer_id > call.data.orders[k].customer_id
            /\ Len(ItemRows(conn, o.id)) = Len(call.data.orders[k].items)
            /\ \A j \in 1..Len(call.data.orders[k].items) :
                 ItemRows(conn, o.id)[j].product_id = call.data.orders[k].items[j].product_id

\* the rows of the four tables of S that are rows of T as well
RowsKept(S, T) ==
  [customers |-> S.customers \cap T.customers, products |-> S.products \cap T.products,
   orders |-> S.orders \cap T.orders, order_items |-> S.order_items \cap T.order_items]

\* the rows of the four tables of S that are not rows of T
RowsBeyond(S, T) ==
  [customers |-> S.customers \ T.customers, products |-> S.products \ T.products,
   orders |-> S.orders \ T.orders, order_items |-> S.order_items \ T.order_items]

\* rows holds the entities of the document and nothing else, under the
\* identifiers that follow those of the store `before`
HoldsDocument(rows, doc, before) ==
  LET cb == before.seq["customers"]
      pb == before.seq["products"]
      ob == before.seq["orders"]
  IN /\ rows.customers =
          { [id |-> cb + i, name |-> doc.customers[i].name,
             email |-> doc.customers[i].email, phone |-> doc.customers[i].phone] :
              i \in 1..Len(doc.customers) }
     /\ rows.products =
          { [id |-> pb + i, title |-> doc.products[i].title,
             price |-> doc.products[i].price] : i \in 1..Len(doc.products) }
     /\ rows.orders =
          { [id |-> ob + k,
             customer_id |-> Rewritten(doc.customers, cb, doc.orders[k].customer_id),
             created_at |-> doc.orders[k].created_at] : k \in 1..Len(doc.orders) }
     /\ Cardinality(rows.order_items) = DocItems(doc)
     /\ \A k \in 1..Len(doc.orders) :
          LET its == SetToSeqAsc({ it \in rows.order_items : it.order_id = ob + k })
          IN /\ Len(its) = Len(doc.orders[k].items)
             /\ \A j \in 1..Len(its) :
                  /\ its[j].product_id =
                       Rewritten(doc.products, pb, doc.orders[k].items[j].product_id)
                  /\ its[j].unit_price = doc.orders[k].items[j].unit_price
                  /\ its[j].quantity = doc.orders[k].items[j].quantity

NoRows == [customers |-> {}, products |-> {}, orders |-> {}, order_items |-> {}]

\* C23: import_json with clear_first empties the four tables before it
\* inserts anything, so none of the rows from before the call is left and,
\* when the import returns, the store holds the entities of the document
\* and nothing else; without clear_first every row from before the call is
\* kept as it was and, when the import returns, the entities of the
\* document have been added to them.
C23_ClearFirst ==
  [][ call'.fn = "import_json" =>
        /\ call'.clear_first =>
             /\ RowsKept(conn, conn') = NoRows
             /\ call'.err = NoError => HoldsDocument(RowsBeyond(conn', NoRows), call'.data, conn)
        /\ ~call'.clear_first =>
             /\ RowsBeyond(conn, conn') = NoRows
             /\ call'.err = NoError => HoldsDocument(RowsBeyond(conn', conn), call'.data, conn) ]_vars

\* an import with clear_first has returned on a store that held three
\* customers and four products: their identifiers are gone and the three
\* customers, the four products, the orders and the items of the document
\* are what the store holds
C23_Witness ==
  /\ call.fn = "import_json"
  /\ call.clear_first
  /\ call.err = NoError
  /\ Ids(conn.customers) = {4, 5, 6}
  /\ Ids(conn.products) = {5, 6, 7, 8}
  /\ Cardinality(conn.orders) = Len(call.data.orders)
  /\ Cardinality(conn.orders) = 2
  /\ conn.order_items # {}
  /\ db_file = conn

\* ------------------------------ db.py: add_order, then get_order_items
MaxAdded == 2
MaxItemsGiven == 2

\* the items an order is given: of the products 1 and 2, which the store
\* holds as "Pen" and "Ink" while the items carry the title "Quill", and of
\* product 9, which it does not hold
ItemsGiven ==
  { OrderItem(1, "Quill", 500, 1), OrderItem(2, "Quill", 1234, 2),
    OrderItem(9, "Quill", 500, 1) }

\* a store of one customer and two products, and no order added yet
InitItems ==
  /\ \E st \in { RunCalls([S |-> EmptyStore, D |-> EmptyStore],
                          CustomersNamed(<< "A" >>)
                          \o << [op |-> "add_product",
                                 arg |-> Product("Pen", [num |-> TRUE, v |-> 500])],
                                [op |-> "add_product",
                                 arg |-> Product("Ink", [num |-> TRUE, v |-> 1234])] >>) } :
       /\ conn = st.S
       /\ db_file = st.D
       /\ high = [t \in IdTables |-> st.D.seq[t]]
  /\ conn_open = TRUE
  /\ schema = TableNames
  /\ last = Call("init", NoError, 0, 0, NoIds)
  /\ call = [fn |-> "add_order", added |-> << >>, got |-> << >>]

\* Database.add_order of an order of the given items; added keeps, for
\* every call that returned, the identifier returned and the items given
AddOrderOf ==
  /\ Len(call.added) < MaxAdded
  /\ conn.seq["orders"] < MaxAdded + 1
  /\ \E items \in SeqsUpTo(ItemsGiven, MaxItemsGiven) :
       LET r == add_order(conn, [customer_id |-> 1,
                                 created_at |-> [day |-> 1, sec |-> 30, micro |-> 500],
                                 items |-> items])
           ret == IF r.err = NoError THEN [NoIds EXCEPT !["orders"] = << r.id >>]
                  ELSE NoIds
       IN /\ Connected
          /\ conn' = r.S
          /\ db_file' = (IF r.commit THEN r.S ELSE db_file)
          /\ last' = Call("add_order", r.err, 1, Len(items), ret)
          /\ Returned(ret)
          /\ call' = [call EXCEPT
                        !.added = IF r.err = NoError
                                  THEN Append(@, [id |-> r.id, items |-> items])
                                  ELSE @,
                        !.got = << >>]

\* Database.get_order_items(order_id) for an order added
GetOrderItems ==
  /\ \E i \in 1..Len(call.added) :
       call' = [call EXCEPT !.got = << [order_id |-> call.added[i].id,
                                        given |-> call.added[i].items,
                                        items |-> get_order_items(conn, call.added[i].id)] >>]
  /\ Connected
  /\ UNCHANGED << conn, db_file, last, high >>

NextItems ==
  \/ AddOrderOf
  \/ GetOrderItems

SpecItems == InitItems /\ [][NextItems]_vars

\* C24: add_order stores the item rows in the order the items were given,
\* and get_order_items(order_id) returns the items of that order and no
\* other, each once and in that order, each with the unit_price and the
\* quantity it was stored with and with the title the product has now.
C24_ItemsInInsertionOrder ==
  /\ \A i \in 1..Len(call.added) :
       LET rows == ItemRows(conn, call.added[i].id)
           given == call.added[i].items
       IN /\ Len(rows) = Len(given)
          /\ \A j \in 1..Len(given) :
               /\ rows[j].product_id = given[j].product_id
               /\ rows[j].unit_price = given[j].unit_price
               /\ rows[j].quantity = given[j].quantity
  /\ \A g \in { call.got[i] : i \in 1..Len(call.got) } :
       /\ Len(g.items) = Len(g.given)
       /\ \A j \in 1..Len(g.items) :
            /\ \E it \in conn.order_items : it.id = g.items[j].id /\ it.order_id = g.order_id
            /\ \A k \in 1..Len(g.items) : j < k => g.items[j].id < g.items[k].id
            /\ g.items[j].product_id = g.given[j].product_id
            /\ g.items[j].unit_price = g.given[j].unit_price
            /\ g.items[j].quantity = g.given[j].quantity
            /\ \E p \in conn.products :
                 p.id = g.items[j].product_id /\ p.title = g.items[j].product_title

\* get_order_items has returned the two items of the second of two orders,
\* of different products and prices, after an add_order that raised
C24_Witness ==
  /\ Len(call.added) = 2
  /\ Len(call.got) = 1
  /\ call.got[1].order_id = call.added[2].id
  /\ call.got[1].order_id = 3
  /\ Len(call.got[1].items) = 2
  /\ call.got[1].items[1].product_title = "Ink"
  /\ call.got[1].items[1].unit_price = 1234
  /\ call.got[1].items[2].product_title = "Pen"
  /\ call.got[1].items[2].unit_price = 500
  /\ call.added[1].items # << >>

====
